---- MODULE Spec2Model ----
(***************************************************************************)
(* Model of the 3SAT -> 2SAT pipeline:                                     *)
(*   two_sat_solver.py  TwoSAT (implication graph, Kosaraju solve)         *)
(*   filter.py          enumerate_2sat_models, filter_models,              *)
(*                      solve_and_filter                                   *)
(*   transformer.py     transform_3sat_to_2sat                             *)
(*                                                                         *)
(* Python lists are sequences (index v of the code is index v+1 here),     *)
(* dicts are functions on their key set, sets are sets.  An optional       *)
(* value is None == <<>> or Some(x) == <<x>>.                              *)
(***************************************************************************)
EXTENDS Integers, Sequences, FiniteSets, TLC

\* ---------------------------------------------------------------- bounds
MaxSize == 4       \* variables + stored clauses + exclusion conditions of a call
MaxK == 2          \* max_models is None or an integer in 0..MaxK
MaxSize3 == 3      \* original variables + 3-literal clauses of a 3-CNF input

\* ------------------------------------------------------------- optionals
None == <<>>
Some(x) == <<x>>
EmptyDict == [x \in {} |-> TRUE]

\* dict.get(k, default)
DictGet(d, k, default) == IF k \in DOMAIN d THEN d[k] ELSE default

\* d[k] = v
DictSet(d, k, v) == [x \in (DOMAIN d) \cup {k} |-> IF x = k THEN v ELSE d[x]]

\* the elements of a set of integers as a list, in increasing order (how
\* CPython iterates a set of small non-negative integers); the traversal and
\* the derivation that read such a list give the same result for any order
\* whenever the reached set is consistent
RECURSIVE SetToList(_)
SetToList(S) ==
    IF S = {} THEN <<>>
    ELSE LET m == CHOOSE x \in S : \A y \in S : x <= y
         IN <<m>> \o SetToList(S \ {m})

\* ------------------------------------------------------ two_sat_solver.py
\* TwoSAT._lit_index
_lit_index(var, is_true) == 2 * var + (IF is_true THEN 0 ELSE 1)

\* l ^ 1 on a literal index
Neg(l) == IF l % 2 = 0 THEN l + 1 ELSE l - 1

\* TwoSAT.__init__: the object after construction
TwoSAT(nv) ==
    [n |-> nv,
     g |-> [u \in 0..(2 * nv - 1) |-> <<>>],
     rg |-> [u \in 0..(2 * nv - 1) |-> <<>>],
     clauses |-> <<>>]

\* TwoSAT._add_implication
_add_implication(ts, u, v) ==
    [ts EXCEPT !.g[u] = Append(@, v), !.rg[v] = Append(@, u)]

\* faulty variant: only the first index is checked
add_clause_in_range_first_only(nv, i, j) == 0 <= i /\ i < nv

\* the range check of add_clause
add_clause_in_range(nv, i, j) == (0 <= i /\ i < nv) /\ (0 <= j /\ j < nv)

\* TwoSAT.add_clause, once the range check has passed
add_clause(ts, i, is_true_i, j, is_true_j) ==
    LET li == _lit_index(i, is_true_i)
        lj == _lit_index(j, is_true_j)
        t1 == _add_implication(ts, Neg(li), lj)
        t2 == _add_implication(t1, Neg(lj), li)
    IN [t2 EXCEPT !.clauses = Append(@, <<<<i, is_true_i>>, <<j, is_true_j>>>>)]

\* solve(): first pass, dfs(v) over g; st = [used, order]
RECURSIVE dfs(_, _, _), dfs_loop(_, _, _, _)
dfs(gr, st, v) == dfs_loop(gr, [st EXCEPT !.used = @ \cup {v}], v, 1)
dfs_loop(gr, st, v, idx) ==
    IF idx > Len(gr[v]) THEN [st EXCEPT !.order = Append(@, v)]
    ELSE LET to == gr[v][idx]
         IN dfs_loop(gr, IF to \in st.used THEN st ELSE dfs(gr, st, to), v, idx + 1)

RECURSIVE dfs_all(_, _, _, _)
dfs_all(gr, N, st, v) ==
    IF v >= N THEN st
    ELSE dfs_all(gr, N, IF v \in st.used THEN st ELSE dfs(gr, st, v), v + 1)

\* solve(): second pass, rdfs(v, cl) over rg; comp is a function, -1 = unset
RECURSIVE rdfs(_, _, _, _), rdfs_loop(_, _, _, _, _)
rdfs(rgr, comp, v, cl) == rdfs_loop(rgr, [comp EXCEPT ![v] = cl], v, cl, 1)
rdfs_loop(rgr, comp, v, cl, idx) ==
    IF idx > Len(rgr[v]) THEN comp
    ELSE LET to == rgr[v][idx]
         IN rdfs_loop(rgr, IF comp[to] = -1 THEN rdfs(rgr, comp, to, cl) ELSE comp,
                      v, cl, idx + 1)

\* for v in reversed(order); st = [comp, cid]
RECURSIVE rdfs_all(_, _, _, _)
rdfs_all(rgr, order, st, k) ==
    IF k < 1 THEN st
    ELSE LET v == order[k]
         IN rdfs_all(rgr, order,
                     IF st.comp[v] = -1
                     THEN [comp |-> rdfs(rgr, st.comp, v, st.cid), cid |-> st.cid + 1]
                     ELSE st,
                     k - 1)

\* the component ids computed by solve()
components(ts) ==
    LET N == 2 * ts.n
        order == dfs_all(ts.g, N, [used |-> {}, order |-> <<>>], 0).order
    IN rdfs_all(ts.rg, order, [comp |-> [u \in 0..(N - 1) |-> -1], cid |-> 0],
                Len(order)).comp

\* faulty variant: the comparison of the component ids reversed
witness_value_reversed(comp, var) == comp[2 * var] < comp[2 * var + 1]

\* variable is true iff comp[true_lit] > comp[false_lit]
witness_value(comp, var) == comp[2 * var] > comp[2 * var + 1]

\* TwoSAT.solve
solve(ts) ==
    LET comp == components(ts)
    IN IF \E var \in 0..(ts.n - 1) : comp[2 * var] = comp[2 * var + 1]
       THEN [sat |-> FALSE, assignment |-> None]
       ELSE [sat |-> TRUE,
             assignment |-> Some([var1 \in 1..ts.n |-> witness_value(comp, var1 - 1)])]

\* --------------------------------------------------------------- filter.py
_lit_index_for(var, val) == 2 * var + (IF val THEN 0 ELSE 1)

\* for to in g[v]: if to not in visited: stack.append(to)
RECURSIVE push_unvisited(_, _, _, _)
push_unvisited(stack, adj, visited, idx) ==
    IF idx > Len(adj) THEN stack
    ELSE push_unvisited(IF adj[idx] \notin visited THEN Append(stack, adj[idx]) ELSE stack,
                        adj, visited, idx + 1)

\* the while loop of _propagate_from_literals; result [consistent, visited]
RECURSIVE propagate_loop(_, _, _)
propagate_loop(gr, stack, visited) ==
    IF stack = <<>>
    THEN [consistent |-> ~(\E lit \in visited : Neg(lit) \in visited),
          visited |-> visited]
    ELSE LET v == stack[Len(stack)]
             rest == SubSeq(stack, 1, Len(stack) - 1)
         IN IF v \in visited THEN propagate_loop(gr, rest, visited)
            ELSE LET vis == visited \cup {v}
                 IN IF Neg(v) \in vis
                    THEN [consistent |-> FALSE, visited |-> vis]
                    ELSE propagate_loop(gr, push_unvisited(rest, gr[v], vis, 1), vis)

\* faulty variant: the traversal walks the reverse adjacency
_propagate_from_literals_reverse(ts, start_lits) == propagate_loop(ts.rg, start_lits, {})

_propagate_from_literals(ts, start_lits) == propagate_loop(ts.g, start_lits, {})

\* _derive_partial_assignment_from_true_lits: the first literal met for a
\* variable fixes it
RECURSIVE derive_loop(_, _, _)
derive_loop(lits, idx, assign) ==
    IF idx > Len(lits) THEN assign
    ELSE LET var == lits[idx] \div 2
             is_true_lit == (lits[idx] % 2 = 0)
         IN derive_loop(lits, idx + 1,
                        IF var \in DOMAIN assign THEN assign
                        ELSE DictSet(assign, var, is_true_lit))

_derive_partial_assignment_from_true_lits(n_vars, lits) ==
    derive_loop(SetToList(lits), 1, EmptyDict)

\* faulty variant: the highest unassigned index is chosen
choose_var_highest(nv, asg) ==
    IF \E i \in 0..(nv - 1) : i \notin DOMAIN asg
    THEN Some(CHOOSE i \in 0..(nv - 1) :
                 i \notin DOMAIN asg /\ \A k \in (i + 1)..(nv - 1) : k \in DOMAIN asg)
    ELSE None

\* choose_var: lowest unassigned index, or None
choose_var(nv, asg) ==
    IF \E i \in 0..(nv - 1) : i \notin DOMAIN asg
    THEN Some(CHOOSE i \in 0..(nv - 1) :
                 i \notin DOMAIN asg /\ \A k \in 0..(i - 1) : k \in DOMAIN asg)
    ELSE None

\* for val in (True, False)
Polarity(idx) == (idx = 1)

\* max_models is not None and yielded >= max_models
stop_reached(mm, y) == mm # None /\ y >= mm[1]

\* full[i] = assigned.get(i, False)
full_assignment(nv, asg) == [i1 \in 1..nv |-> DictGet(asg, i1 - 1, FALSE)]

\* A generator frame of backtrack().  pc is the position in the body:
\*   "enter"    called, nothing executed yet
\*   "leaf"     suspended at `yield full`
\*   "loop"     at the head of `for val in (True, False)`, val = next index
\*   "wait"     inside `for res in backtrack()`, the child frame is above
\*   "restore"  the inner for loop has ended or was left by break
\*   "check"    restored, at the trailing max_models test of the trial
\* entry_assigned / entry_true_lits are history fields (not in the code): the
\* contents of the shared maps when the frame was entered.
NewFrame(asg, tl) ==
    [pc |-> "enter", var |-> None, val |-> 1, newly_set |-> {},
     prev_assigned_vals |-> EmptyDict, prev_true_lits |-> {},
     entry_assigned |-> asg, entry_true_lits |-> tl]

\* enumerator state after the solve() gate has passed
EnumStart ==
    [pc |-> "run", assigned |-> EmptyDict, true_lits |-> {}, yielded |-> 0,
     stack |-> <<NewFrame(EmptyDict, {})>>, out |-> <<>>]

Top(m) == m.stack[Len(m.stack)]
SetTop(m, f) == [m EXCEPT !.stack[Len(m.stack)] = f]

\* a frame returns: its caller's inner for loop ends; the outermost return
\* exhausts the generator
PopFrame(m) ==
    IF Len(m.stack) = 1 THEN [m EXCEPT !.stack = <<>>, !.pc = "done"]
    ELSE LET rest == SubSeq(m.stack, 1, Len(m.stack) - 1)
         IN [m EXCEPT !.stack = [rest EXCEPT ![Len(rest)].pc = "restore"]]

\* lines 59-69: choose_var, and at a leaf build and yield the assignment
step_enter(ts, mm, m) ==
    LET var == choose_var(ts.n, m.assigned)
    IN IF var = None
       THEN [SetTop(m, [Top(m) EXCEPT !.pc = "leaf"]) EXCEPT
                !.yielded = @ + 1,
                !.out = Append(@, full_assignment(ts.n, m.assigned)),
                !.pc = "suspended"]
       ELSE SetTop(m, [Top(m) EXCEPT !.pc = "loop", !.var = var, !.val = 1])

\* lines 70-90: one polarity up to the recursive call
step_trial(ts, mm, m) ==
    LET f == Top(m)
        lit == _lit_index_for(f.var[1], Polarity(f.val))
        start_lits == Append(SetToList(m.true_lits), lit)
        pr == _propagate_from_literals(ts, start_lits)
        implied == _derive_partial_assignment_from_true_lits(ts.n, pr.visited)
        conflict == \E vv \in DOMAIN implied :
                        vv \in DOMAIN m.assigned /\ m.assigned[vv] # implied[vv]
        newly == {k \in DOMAIN implied : k \notin DOMAIN m.assigned}
        prev == [k \in newly |-> IF k \in DOMAIN m.assigned
                                 THEN Some(m.assigned[k]) ELSE None]
        asg == [k \in (DOMAIN m.assigned) \cup newly |->
                   IF k \in newly THEN implied[k] ELSE m.assigned[k]]
    IN IF ~pr.consistent \/ conflict
       THEN SetTop(m, [f EXCEPT !.val = @ + 1])
       ELSE [m EXCEPT
                !.assigned = asg,
                !.true_lits = pr.visited,
                !.stack = Append([m.stack EXCEPT ![Len(m.stack)] =
                                     [f EXCEPT !.pc = "wait", !.newly_set = newly,
                                               !.prev_assigned_vals = prev,
                                               !.prev_true_lits = m.true_lits]],
                                 NewFrame(asg, pr.visited))]

\* faulty variant: the variables set by the trial are not removed
restore_assigned_skipped(asg, f) == asg

\* lines 95-101: undo what this trial set
restore_assigned(asg, f) ==
    [k \in ((DOMAIN asg) \ {x \in f.newly_set : f.prev_assigned_vals[x] = None})
           \cup {x \in f.newly_set : f.prev_assigned_vals[x] # None} |->
        IF k \in f.newly_set THEN f.prev_assigned_vals[k][1] ELSE asg[k]]

step_restore(ts, mm, m) ==
    LET f == Top(m)
    IN [SetTop(m, [f EXCEPT !.pc = "check"]) EXCEPT
           !.assigned = restore_assigned(m.assigned, f),
           !.true_lits = f.prev_true_lits]

\* lines 102-103, then the next polarity
step_check(ts, mm, m) ==
    IF stop_reached(mm, m.yielded) THEN PopFrame(m)
    ELSE SetTop(m, [Top(m) EXCEPT !.pc = "loop", !.val = @ + 1])

\* line 104: both polarities tried
step_return(ts, mm, m) == PopFrame(m)

\* The consumer asks for the next model.  Every suspended frame below the
\* leaf sits at `yield res` (line 92) and the outermost one runs first: when
\* the bound is reached it leaves its inner for loop by break (line 94), which
\* drops the inner generators without running the rest of their bodies;
\* otherwise control goes down to the leaf, which returns (lines 67-69).
step_resume(ts, mm, m) ==
    IF stop_reached(mm, m.yielded) /\ Len(m.stack) > 1
    THEN [m EXCEPT !.pc = "run",
                   !.stack = <<[m.stack[1] EXCEPT !.pc = "restore"]>>]
    ELSE [PopFrame(m) EXCEPT !.pc = IF Len(m.stack) = 1 THEN "done" ELSE "run"]

\* one step of the generator
enum_step(ts, mm, m) ==
    IF m.pc = "suspended" THEN step_resume(ts, mm, m)
    ELSE LET f == Top(m)
         IN CASE f.pc = "enter" -> step_enter(ts, mm, m)
              [] f.pc = "loop" /\ f.val <= 2 -> step_trial(ts, mm, m)
              [] f.pc = "loop" /\ f.val > 2 -> step_return(ts, mm, m)
              [] f.pc = "restore" -> step_restore(ts, mm, m)
              [] f.pc = "check" -> step_check(ts, mm, m)

RECURSIVE enum_run(_, _, _)
enum_run(ts, mm, m) ==
    IF m.pc = "done" THEN m ELSE enum_run(ts, mm, enum_step(ts, mm, m))

\* enumerate_2sat_models consumed to exhaustion: the list of yielded models
enumerate_2sat_models(ts, mm) ==
    IF ~solve(ts).sat THEN <<>> ELSE enum_run(ts, mm, EnumStart).out

\* faulty variant: any() in place of all()
matches_exclusion_any(assignment, cond) ==
    \E idx \in DOMAIN cond : assignment[idx + 1] = cond[idx]

\* matches_exclusion
matches_exclusion(assignment, cond) ==
    \A idx \in DOMAIN cond : assignment[idx + 1] = cond[idx]

\* filter_models: keep, in order, the models no condition matches
RECURSIVE filter_models(_, _, _)
filter_models(models, exclude_conditions, idx) ==
    IF idx > Len(models) THEN <<>>
    ELSE LET excluded == \E c \in 1..Len(exclude_conditions) :
                             matches_exclusion(models[idx], exclude_conditions[c])
             tail == filter_models(models, exclude_conditions, idx + 1)
         IN IF excluded THEN tail ELSE <<models[idx]>> \o tail

\* full[:k] for 0 <= k
Prefix(full, k) == SubSeq(full, 1, IF k < Len(full) THEN k ELSE Len(full))

\* the projection loop of solve_and_filter
RECURSIVE project_loop(_, _, _, _, _)
project_loop(filtered, k, idx, seen, projected) ==
    IF idx > Len(filtered) THEN projected
    ELSE LET proj == Prefix(filtered[idx], k)
         IN IF proj \notin seen
            THEN project_loop(filtered, k, idx + 1, seen \cup {proj}, Append(projected, proj))
            ELSE project_loop(filtered, k, idx + 1, seen, projected)

\* solve_and_filter from filter_models on (lines 128-136), on the list of
\* models the generator yields; result [flag, models]
filter_and_project(models, exclude_conditions, num_original_vars) ==
    LET filtered == filter_models(models, exclude_conditions, 1)
        projected == project_loop(filtered, num_original_vars, 1, {}, <<>>)
    IN [flag |-> Len(projected) > 0, models |-> projected]

\* ---------------------------------------------------------- transformer.py
_lit_to_pair(lit) == <<(IF lit < 0 THEN -lit ELSE lit) - 1, lit > 0>>

\* faulty variant: the auxiliary is required false
exclusion_cond_aux_false(lit1, lit2, aux_idx) ==
    LET v1 == _lit_to_pair(lit1)[1]
        v2 == _lit_to_pair(lit2)[1]
    IN DictSet(DictSet(DictSet(EmptyDict, v1, lit1 < 0), v2, lit2 < 0), aux_idx, FALSE)

\* the exclusion condition of one clause: a dict written key by key
exclusion_cond(lit1, lit2, aux_idx) ==
    LET v1 == _lit_to_pair(lit1)[1]
        v2 == _lit_to_pair(lit2)[1]
    IN DictSet(DictSet(DictSet(EmptyDict, v1, lit1 < 0), v2, lit2 < 0), aux_idx, TRUE)

\* the loop body of transform_3sat_to_2sat for clause number i (0-based);
\* st = [ts, exclude_conditions]
transform_clause(st, cl, i, nov) ==
    LET aux_idx == nov + i
        p1 == _lit_to_pair(cl[1])
        p2 == _lit_to_pair(cl[2])
        p3 == _lit_to_pair(cl[3])
        t1 == add_clause(st.ts, p1[1], ~p1[2], aux_idx, TRUE)
        t2 == add_clause(t1, p2[1], ~p2[2], aux_idx, TRUE)
        t3 == add_clause(t2, aux_idx, TRUE, p3[1], p3[2])
    IN [ts |-> t3,
        exclude_conditions |-> Append(st.exclude_conditions,
                                      exclusion_cond(cl[1], cl[2], aux_idx))]

RECURSIVE transform_loop(_, _, _, _)
transform_loop(st, cls, i, nov) ==
    IF i >= Len(cls) THEN st
    ELSE transform_loop(transform_clause(st, cls[i + 1], i, nov), cls, i + 1, nov)

\* transform_3sat_to_2sat; result [ts, exclude_conditions]
transform_3sat_to_2sat(cls, nov) ==
    transform_loop([ts |-> TwoSAT(nov + Len(cls)), exclude_conditions |-> <<>>],
                   cls, 0, nov)

\* ------------------------------------------------------------------ state
VARIABLES
    n, g, rg, clauses,      \* the TwoSAT object
    pc,                     \* "input", "idle", "run", "suspended", "done", "ret"
    call,                   \* the call in progress or just returned
    max_models, assigned, true_lits, yielded, stack, out,   \* the generator
    clauses3, num_original_vars, exclude_conditions         \* the 3-CNF side

tsVars == <<n, g, rg, clauses>>
genVars == <<max_models, assigned, true_lits, yielded, stack, out>>
cnfVars == <<clauses3, num_original_vars, exclude_conditions>>
vars == <<n, g, rg, clauses, pc, call, max_models, assigned, true_lits, yielded,
          stack, out, clauses3, num_original_vars, exclude_conditions>>

ts == [n |-> n, g |-> g, rg |-> rg, clauses |-> clauses]
gen == [pc |-> pc, assigned |-> assigned, true_lits |-> true_lits,
        yielded |-> yielded, stack |-> stack, out |-> out]

NoCall == [op |-> "none", args |-> <<>>, result |-> <<>>]

\* inputs
MaxModelsSet == {None} \cup {Some(k) : k \in 0..MaxK}
Conds(nv) == UNION {[D -> BOOLEAN] : D \in SUBSET (0..(nv - 1))}
CondLists(nv, maxlen) == UNION {[1..L -> Conds(nv)] : L \in 0..maxlen}
Lits3(nov) == {l \in (-nov)..nov : l # 0}
Clauses3(nov) == Lits3(nov) \X Lits3(nov) \X Lits3(nov)
ClauseLists3(nov) == UNION {[1..L -> Clauses3(nov)] : L \in 0..(MaxSize3 - nov)}

GenIdle ==
    /\ max_models = None /\ assigned = EmptyDict /\ true_lits = {}
    /\ yielded = 0 /\ stack = <<>> /\ out = <<>>

\* a TwoSAT(n) just constructed
Init ==
    /\ n \in 1..MaxSize
    /\ g = TwoSAT(n).g /\ rg = TwoSAT(n).rg /\ clauses = TwoSAT(n).clauses
    /\ pc = "idle" /\ call = NoCall
    /\ GenIdle
    /\ clauses3 = <<>> /\ num_original_vars = 0 /\ exclude_conditions = <<>>

\* a 3-CNF read from the input, nothing built yet
InitT ==
    /\ num_original_vars \in 1..MaxSize3
    /\ clauses3 \in ClauseLists3(num_original_vars)
    /\ exclude_conditions = <<>>
    /\ n = 0 /\ g = EmptyDict /\ rg = EmptyDict /\ clauses = <<>>
    /\ pc = "input" /\ call = NoCall
    /\ GenIdle

\* ---------------------------------------------------------------- actions
\* ts.add_clause(i, is_true_i, j, is_true_j): IndexError or the two edges
AddClause(i, is_true_i, j, is_true_j) ==
    /\ pc = "idle"
    /\ n + Len(clauses) < MaxSize
    /\ IF add_clause_in_range(n, i, j)
       THEN LET t == add_clause(ts, i, is_true_i, j, is_true_j)
            IN /\ g' = t.g /\ rg' = t.rg /\ clauses' = t.clauses
               /\ call' = [op |-> "add_clause", args |-> <<i, is_true_i, j, is_true_j>>,
                           result |-> "ok"]
       ELSE /\ UNCHANGED <<g, rg, clauses>>
            /\ call' = [op |-> "add_clause", args |-> <<i, is_true_i, j, is_true_j>>,
                        result |-> "IndexError"]
    /\ pc' = "ret"
    /\ UNCHANGED <<n, genVars, cnfVars>>

\* ts.solve()
Solve ==
    /\ pc = "idle"
    /\ call' = [op |-> "solve", args |-> <<>>, result |-> solve(ts)]
    /\ pc' = "ret"
    /\ UNCHANGED <<tsVars, genVars, cnfVars>>

\* solve_and_filter(ts, aux_map, excl, k, max_models=mm) for some excl in
\* exclSet and k in kSet: the solve() gate, the generator consumed to
\* exhaustion by filter_models (out records what it yielded), the projection
SolveAndFilter(exclSet, kSet, mm) ==
    /\ pc = "idle"
    /\ LET sat == solve(ts).sat
           models == IF sat THEN enumerate_2sat_models(ts, mm) ELSE <<>>
       IN /\ out' = models
          /\ \E excl \in exclSet : \E k \in kSet :
                 call' = [op |-> "solve_and_filter", args |-> <<excl, k, mm>>,
                          result |-> IF sat THEN filter_and_project(models, excl, k)
                                     ELSE [flag |-> FALSE, models |-> <<>>]]
    /\ pc' = "ret"
    /\ UNCHANGED <<tsVars, cnfVars, max_models, assigned, true_lits, yielded, stack>>

\* enumerate_2sat_models(ts, mm), first next(): lines 45-52
StartEnumerate(mm) ==
    /\ pc = "idle"
    /\ call' = [op |-> "enumerate_2sat_models", args |-> <<mm>>, result |-> <<>>]
    /\ max_models' = mm
    /\ IF ~solve(ts).sat
       THEN pc' = "done" /\ UNCHANGED <<assigned, true_lits, yielded, stack, out>>
       ELSE /\ pc' = EnumStart.pc /\ assigned' = EnumStart.assigned
            /\ true_lits' = EnumStart.true_lits /\ yielded' = EnumStart.yielded
            /\ stack' = EnumStart.stack /\ out' = EnumStart.out
    /\ UNCHANGED <<tsVars, cnfVars>>

SetGen(m) ==
    /\ pc' = m.pc /\ assigned' = m.assigned /\ true_lits' = m.true_lits
    /\ yielded' = m.yielded /\ stack' = m.stack /\ out' = m.out
    /\ UNCHANGED <<tsVars, cnfVars, call, max_models>>

Running(framepc) == pc = "run" /\ Top(gen).pc = framepc

Enter == Running("enter") /\ SetGen(step_enter(ts, max_models, gen))
Trial == Running("loop") /\ Top(gen).val <= 2 /\ SetGen(step_trial(ts, max_models, gen))
Return == Running("loop") /\ Top(gen).val > 2 /\ SetGen(step_return(ts, max_models, gen))
Restore == Running("restore") /\ SetGen(step_restore(ts, max_models, gen))
Check == Running("check") /\ SetGen(step_check(ts, max_models, gen))
Resume == pc = "suspended" /\ SetGen(step_resume(ts, max_models, gen))

\* the caller drops the result of the call that has returned
Finish ==
    /\ pc \in {"done", "ret"}
    /\ pc' = "idle" /\ call' = NoCall
    /\ max_models' = None /\ assigned' = EmptyDict /\ true_lits' = {}
    /\ yielded' = 0 /\ stack' = <<>> /\ out' = <<>>
    /\ UNCHANGED <<tsVars, cnfVars>>

\* ts, aux_map, exclude_conditions = transform_3sat_to_2sat(clauses3, n)
Transform ==
    /\ pc = "input"
    /\ LET r == transform_3sat_to_2sat(clauses3, num_original_vars)
       IN /\ n' = r.ts.n /\ g' = r.ts.g /\ rg' = r.ts.rg /\ clauses' = r.ts.clauses
          /\ exclude_conditions' = r.exclude_conditions
    /\ pc' = "idle"
    /\ UNCHANGED <<call, genVars, clauses3, num_original_vars>>

Next ==
    \/ \E i, j \in -1..n : \E bi, bj \in BOOLEAN : AddClause(i, bi, j, bj)
    \/ Solve
    \/ \E mm \in MaxModelsSet : StartEnumerate(mm)
    \/ Enter \/ Trial \/ Return \/ Restore \/ Check \/ Resume
    \/ Finish

Spec == Init /\ [][Next]_vars

\* a graph handed to solve_and_filter with a list of exclusion conditions
NextF ==
    \/ \E i, j \in -1..n : \E bi, bj \in BOOLEAN : AddClause(i, bi, j, bj)
    \/ \E mm \in MaxModelsSet :
           SolveAndFilter(CondLists(n, MaxSize - n - Len(clauses)), 0..n, mm)
    \/ Finish

SpecF == Init /\ [][NextF]_vars

\* the pipeline of main.py: transform, solve gate, solve_and_filter
NextT ==
    \/ Transform
    \/ Solve
    \/ \E mm \in MaxModelsSet : SolveAndFilter({exclude_conditions}, {num_original_vars}, mm)
    \/ Finish

SpecT == InitT /\ [][NextT]_vars

\* ----------------------------------------------------------- claim helpers
\* all assignments of nv variables
Assignments(nv) == [1..nv -> BOOLEAN]

\* value of the literal (var, is_true) under assignment a
lit_val(a, lit) == IF lit[2] THEN a[lit[1] + 1] ELSE ~a[lit[1] + 1]

\* every stored 2-literal clause has a true literal
SatisfiesAll(a, cls) ==
    \A c \in 1..Len(cls) : lit_val(a, cls[c][1]) \/ lit_val(a, cls[c][2])

\* the satisfying assignments of the stored clauses, by brute force
SatSet == {a \in Assignments(n) : SatisfiesAll(a, clauses)}

\* value of a signed 3-CNF literal under an assignment of the original variables
lit3_val(a, lit) == lit_val(a, _lit_to_pair(lit))

Sat3(a, cl) == lit3_val(a, cl[1]) \/ lit3_val(a, cl[2]) \/ lit3_val(a, cl[3])

Sat3All(a) == \A c \in 1..Len(clauses3) : Sat3(a, clauses3[c])

Range(sq) == {sq[i] : i \in 1..Len(sq)}

\* a before b in the order "by variable index, true before false"
LexLess(a, b) ==
    \E i \in 1..Len(a) : a[i] /\ ~b[i] /\ \A j \in 1..(i - 1) : a[j] = b[j]

Returned(op) == pc = "ret" /\ call.op = op

\* ----------------------------------------------------------------- claims
\* C1: solve() returns (True, A) with A a length-n assignment satisfying every
\* stored clause whenever some assignment satisfies them all, and (False, None)
\* whenever none does.
C1_SolveAgreesWithBruteForce ==
    Returned("solve") =>
        IF SatSet # {}
        THEN /\ call.result.sat
             /\ call.result.assignment # None
             /\ Len(call.result.assignment[1]) = n
             /\ call.result.assignment[1] \in SatSet
        ELSE call.result = [sat |-> FALSE, assignment |-> None]

C1_Witness ==
    /\ Returned("solve") /\ Len(clauses) >= 2 /\ call.result.sat
    /\ Cardinality(SatSet) = 1

\* C2: every projected model returned by solve_and_filter on the output of
\* transform_3sat_to_2sat satisfies every original 3-literal clause.
C2_ProjectedModelsSatisfy3CNF ==
    Returned("solve_and_filter") =>
        \A a \in Range(call.result.models) : Len(a) = num_original_vars /\ Sat3All(a)

C2_Witness ==
    /\ Returned("solve_and_filter") /\ Len(clauses3) >= 1
    /\ call.result.flag
    /\ \E a \in Assignments(num_original_vars) : ~Sat3All(a)

\* C3 (as claimed): with no max_models bound every assignment of the original
\* variables that satisfies all original clauses is in the returned list, and
\* the flag is True whenever the 3-CNF is satisfiable.
C3_Claim ==
    (Returned("solve_and_filter") /\ call.args[3] = None) =>
        /\ \A a \in Assignments(num_original_vars) :
               Sat3All(a) => a \in Range(call.result.models)
        /\ (\E a \in Assignments(num_original_vars) : Sat3All(a)) => call.result.flag

\* C4: each assignment yielded by enumerate_2sat_models has length n and
\* satisfies every stored clause.
C4_YieldedModelsSatisfyClauses ==
    \A i \in 1..Len(out) : Len(out[i]) = n /\ SatisfiesAll(out[i], clauses)

C4_Witness ==
    /\ pc = "done" /\ Len(out) >= 2 /\ Len(clauses) >= 1
    /\ SatSet # Assignments(n)

\* C5: with no bound, every satisfying assignment is yielded exactly once, and
\* an unsatisfiable graph yields nothing.
C5_UnboundedEnumerationIsExact ==
    (pc = "done" /\ max_models = None) =>
        /\ Range(out) = SatSet
        /\ Len(out) = Cardinality(SatSet)

C5_Witness ==
    /\ pc = "done" /\ max_models = None /\ Len(clauses) >= 1
    /\ Len(out) >= 3

\* C6 (as claimed): for every bound K >= 0, K = 0 included, at most K
\* assignments are yielded.
C6_Claim ==
    (max_models # None /\ max_models[1] >= 0) => Len(out) <= max_models[1]

\* C7: for a bound K >= 1 the yielded sequence is the first min(K, T) of the T
\* satisfying assignments in the order by variable index, true before false.
C7_FirstModelsInLexOrder ==
    (pc = "done" /\ max_models # None /\ max_models[1] >= 1) =>
        LET K == max_models[1]
            T == Cardinality(SatSet)
        IN /\ Len(out) = (IF K < T THEN K ELSE T)
           /\ Range(out) \subseteq SatSet
           /\ \A i, j \in 1..Len(out) : i < j => LexLess(out[i], out[j])
           /\ \A a \in SatSet \ Range(out) : \A i \in 1..Len(out) : LexLess(out[i], a)

C7_Witness ==
    /\ pc = "done" /\ max_models = Some(2) /\ Len(out) = 2
    /\ Cardinality(SatSet) >= 3 /\ Len(clauses) >= 1

\* C8: on a satisfiable graph solve_and_filter returns exactly the length-k
\* prefixes of the enumerated models (out) that no condition matches, each
\* distinct prefix once, in order of first occurrence; the flag is True iff the
\* list is non-empty.
C8_Kept(E, excl, i) ==
    ~\E c \in 1..Len(excl) : \A v \in DOMAIN excl[c] : E[i][v + 1] = excl[c][v]

C8_First(E, excl, k, p) ==
    CHOOSE i \in 1..Len(E) :
        /\ C8_Kept(E, excl, i) /\ SubSeq(E[i], 1, k) = p
        /\ \A h \in 1..(i - 1) : ~(C8_Kept(E, excl, h) /\ SubSeq(E[h], 1, k) = p)

C8_FilterAndProject ==
    (Returned("solve_and_filter") /\ SatSet # {}) =>
        LET excl == call.args[1]
            k == call.args[2]
            E == out
            R == call.result.models
        IN /\ Range(R) = {SubSeq(E[i], 1, k) : i \in {h \in 1..Len(E) : C8_Kept(E, excl, h)}}
           /\ \A i, j \in 1..Len(R) : i < j =>
                  /\ R[i] # R[j]
                  /\ C8_First(E, excl, k, R[i]) < C8_First(E, excl, k, R[j])
           /\ call.result.flag = (Len(R) > 0)

C8_Witness ==
    /\ Returned("solve_and_filter")
    /\ Len(call.args[1]) >= 1 /\ Cardinality(DOMAIN call.args[1][1]) = 2
    /\ call.args[2] = 1 /\ call.args[3] = None
    /\ Len(call.result.models) = 2
    /\ Cardinality(SatSet) = 4

\* C9: g, rg and the stored clause list change only in an accepted add_clause;
\* solve(), a full enumeration and a rejected add_clause leave them unchanged.
C9_GraphChangedOnlyByAcceptedAddClause ==
    [][(<<g, rg, clauses>>' # <<g, rg, clauses>>) =>
          /\ pc = "idle"
          /\ call'.op = "add_clause"
          /\ 0 <= call'.args[1] /\ call'.args[1] < n
          /\ 0 <= call'.args[3] /\ call'.args[3] < n
          /\ Len(clauses') = Len(clauses) + 1]_vars

C9_Witness ==
    /\ Returned("add_clause") /\ call.result = "IndexError"
    /\ call.args[1] \in 0..(n - 1) /\ call.args[3] = n
    /\ Len(clauses) >= 1

\* C10 (as claimed): whenever the trial of one polarity has finished, assigned
\* and true_lits hold what they held before the trial started, and both are
\* empty when the generator is exhausted.
C10_Claim ==
    /\ (pc = "run" /\ Top(gen).pc \in {"loop", "check"}) =>
           /\ assigned = Top(gen).entry_assigned
           /\ true_lits = Top(gen).entry_true_lits
    /\ pc = "done" => (assigned = EmptyDict /\ true_lits = {})

\* C11 (as claimed): with a bound K >= 1, once the yielded counter has reached
\* K no call to _propagate_from_literals is made and nothing more is yielded,
\* and every pending recursion level (a frame waiting on its recursive call)
\* is resumed and leaves by its own return: no waiting frame disappears from
\* the call stack without having run its restore code and its check.
C11_Claim ==
    [][(/\ pc \in {"run", "suspended"}
        /\ max_models # None /\ max_models[1] >= 1
        /\ stop_reached(max_models, yielded)) =>
          /\ ~(pc = "run" /\ Top(gen).pc = "loop" /\ Top(gen).val <= 2)
          /\ yielded' = yielded /\ out' = out
          /\ \A i \in 1..Len(stack) :
                 stack[i].pc = "wait" => i <= Len(stack')]_vars

====
